---- MODULE Spec2Model ----
(***************************************************************************)
(* A model of src/asimov.py: two versions of a sales dashboard.            *)
(*   variant A (lines 1-256):   delimiter loop, key cleaning, dedupe,      *)
(*                              left merge, derived fields, one callback.  *)
(*   variant B (lines 258-893): single read, clean_df, merge, date parse,  *)
(*                              filter_df and the Dash callbacks.          *)
(* A run executes one of the two programs; `variant` says which.           *)
(*                                                                         *)
(* Text is a tuple of one-character strings, so that str.strip() and       *)
(* astype(str) are computed and not assumed.  Money is in cents.           *)
(***************************************************************************)
EXTENDS Integers, Sequences, FiniteSets, TLC

VARIABLES
    variant,        \* "A" or "B": which program this run executes
    pc,             \* position of the module-level script
    sepIdx,         \* A: index into DELIMITERS of the next candidate
    df_orders,      \* A: df_orders (NoneT or a table)
    df_products,    \* A: df_products (NoneT or a table)
    successful_sep, \* A: successful_sep ("None" or a delimiter)
    df,             \* the shared joined table (both variants name it df)
    attempts,       \* A, history: one entry per iteration of the delimiter loop
    joinlog,        \* A, history: whether the merge block ran, and the merged table
    diag,           \* history: diagnostics printed by the loader
    out,            \* output of the last callback that ran
    order_data,     \* B: order_data (NoneT before the read)
    product_data,   \* B: product_data (NoneT before the read)
    extended_order, \* B: extended_order, the categories of 'Customer Age Group'
    price_min_limit, \* B: price_min_limit
    price_max_limit, \* B: price_max_limit
    theme_store,    \* B: dcc.Store 'theme-store'
    n_clicks,       \* B: n_clicks of the 'theme-toggle' button
    price_min_store, \* B: dcc.Store 'price-min-numeric-store'
    price_max_store, \* B: dcc.Store 'price-max-numeric-store'
    filter_price_min, \* B: value of the text input 'filter-price-min'
    filter_price_max, \* B: value of the text input 'filter-price-max'
    pending         \* B: the price callback Dash has to run next

loaderA == <<sepIdx, df_orders, df_products, successful_sep, attempts, joinlog>>

loaderB == <<order_data, product_data, extended_order, price_min_limit, price_max_limit>>

uiB == <<theme_store, n_clicks, price_min_store, price_max_store,
         filter_price_min, filter_price_max, pending>>

vars == <<variant, pc, df, diag, out, loaderA, loaderB, uiB>>

----------------------------------------------------------------------------
(* Bounds of the model *)

MaxOrders == 2
MaxProducts == 2

----------------------------------------------------------------------------
(* Values *)

\* No callback has run yet
NoOut == [cb |-> "none"]

\* Python None where a table is expected
NoneT == [none |-> TRUE]

\* pandas missing value in a text column; no text equals it (texts are tuples
\* of single characters)
NaN == <<"<NaN>">>

\* pd.DataFrame(): no columns, no rows
EmptyDF == [cols |-> {}, rows |-> <<>>]

\* Missing value in a numeric column (numpy nan); numbers are in hundredths
\* and never negative
NaNf == -1

\* Series.sum() of the column f: the missing values are skipped, no row gives 0
RECURSIVE SumField(_, _)
SumField(rows, f) ==
    IF rows = <<>> THEN 0
    ELSE (IF Head(rows)[f] = NaNf THEN 0 ELSE Head(rows)[f]) + SumField(Tail(rows), f)

IsTable(t) == t # NoneT

\* DataFrame.empty: no rows or no columns
IsEmpty(t) == t.cols = {} \/ t.rows = <<>>

NRows(t) == Len(t.rows)

\* The tables of at most n rows a file can hold, its rows taken from S, no two
\* rows of a file alike in every field
SeqsUpTo(S, n) ==
    UNION {{q \in [1..k -> S] : \A i, j \in 1..k : q[i] = q[j] => i = j} : k \in 0..n}

RECURSIVE lstrip(_)
lstrip(s) == IF s = <<>> THEN <<>>
             ELSE IF Head(s) = " " THEN lstrip(Tail(s)) ELSE s

RECURSIVE rstrip(_)
rstrip(s) == IF s = <<>> THEN <<>>
             ELSE IF s[Len(s)] = " " THEN rstrip(SubSeq(s, 1, Len(s) - 1)) ELSE s

\* str.strip()
strip(s) == rstrip(lstrip(s))

\* Series.astype(str) on one cell: a missing value becomes the text "nan"
astype_str(c) == IF c = NaN THEN <<"n", "a", "n">> ELSE c

\* .astype(str).str.strip() on one cell
clean_key(c) == strip(astype_str(c))

----------------------------------------------------------------------------
(* Variant A: the input files *)

KEY == "Product ID"

\* Delimiter precedence: comma, semicolon, tab
DELIMITERS == <<",", ";", "\t">>

\* Rows an Order_Details.csv may hold: a key with surrounding whitespace, a
\* key no product has, a missing key
OrderRowsA ==
    { [pid |-> <<" ", "A", " ">>, loc |-> "North", age |-> "18-24", gender |-> "F",
       qty |-> 2, price |-> 1000, tax |-> 10],
      [pid |-> <<"C">>, loc |-> "South", age |-> "25-34", gender |-> "M",
       qty |-> 1, price |-> 500, tax |-> 0],
      [pid |-> NaN, loc |-> "South", age |-> "18-24", gender |-> "F",
       qty |-> 3, price |-> 500, tax |-> 10] }

\* Rows a Product_Details.csv may hold: a repeated key, a key differing only
\* by whitespace, a missing key
ProductRows ==
    { [pid |-> <<"A">>, cat |-> "X"],
      [pid |-> <<"A">>, cat |-> "Y"],
      [pid |-> <<"A", " ">>, cat |-> "Y"],
      [pid |-> NaN, cat |-> "Z"] }

\* A cell of a numeric column that pandas read as text (such as "$5.00")
TextCell == -4

\* An order whose net price is text
OrderRowText ==
    [pid |-> <<"A">>, loc |-> "North", age |-> "18-24", gender |-> "F",
     qty |-> 2, price |-> TextCell, tax |-> 10]

OrderColsFull == {KEY, "Customer Location", "Customer Age Group", "Customer Gender",
                  "Quantity (Units)", "Net Price ($)", "Tax Rate (%)"}

OrderColsNoTax == OrderColsFull \ {"Tax Rate (%)"}

ProductCols == {KEY, "Category"}

\* What pd.read_csv('Order_Details.csv', sep=sep) can give: the file is
\* missing, the parse fails, the separator does not split the line (one
\* column), the key column is absent, or a table
OrderReadsA ==
    { [err |-> "FileNotFoundError"], [err |-> "ParserError"],
      [cols |-> {KEY}, rows |-> <<>>],
      [cols |-> {"Order ID", "Date"}, rows |-> <<>>] }
    \cup { [cols |-> OrderColsFull, rows |-> r] : r \in SeqsUpTo(OrderRowsA, MaxOrders) }
    \cup { [cols |-> OrderColsNoTax, rows |-> <<r>>] : r \in OrderRowsA }
    \cup { [cols |-> OrderColsFull, rows |-> <<OrderRowText>>] }

ProductReads ==
    { [err |-> "FileNotFoundError"], [err |-> "ParserError"],
      [cols |-> {"Product ID;Category"}, rows |-> <<>>],
      [cols |-> {"Category", "Product Name"}, rows |-> <<>>] }
    \cup { [cols |-> ProductCols, rows |-> r] : r \in SeqsUpTo(ProductRows, MaxProducts) }

IsError(r) == "err" \in DOMAIN r

----------------------------------------------------------------------------
(* Variant A: the delimiter loop, lines 22-44 *)

\* The validation without the two column counts
Validate_nocount(o, p) == KEY \in o.cols /\ KEY \in p.cols

\* line 29: the validation of one candidate
Validate(o, p) ==
    /\ KEY \in o.cols
    /\ KEY \in p.cols
    /\ Cardinality(o.cols) > 1
    /\ Cardinality(p.cols) > 1

\* The three conditions of a candidate, stated on what the two reads gave:
\* both parse, both hold the key column, both have more than one column
CandidateOK(ro, rp) ==
    /\ ~IsError(ro) /\ ~IsError(rp)
    /\ KEY \in ro.cols /\ KEY \in rp.cols
    /\ Cardinality(ro.cols) >= 2 /\ Cardinality(rp.cols) >= 2

\* Lines 35-36 left out: the tables of a rejected candidate stay
Rejected_stale(o, p) == <<o, p>>

\* lines 35-36: a candidate that read both files and failed the validation
\* leaves df_orders and df_products None
Rejected(o, p) == <<NoneT, NoneT>>

\* The loop is left: by break, or after the last candidate
NextPos(i, brk) == IF brk \/ i >= Len(DELIMITERS) THEN "merge" ELSE "loop"

\* One iteration of `for sep in DELIMITERS`; ro and rp are what the two
\* reads give under this candidate
TryDelimiter ==
    /\ variant = "A" /\ pc = "loop"
    /\ \E ro \in OrderReadsA, rp \in ProductReads :
        LET sep == DELIMITERS[sepIdx]
            \* ghost field: the candidate a table was parsed under
            tag(t) == [src |-> sep] @@ t
            note(v) == Append(attempts, [sep |-> sep, ok |-> CandidateOK(ro, rp),
                                         verdict |-> v])
        IN
        \/ \* line 25 raises FileNotFoundError: break
           /\ IsError(ro) /\ ro.err = "FileNotFoundError"
           /\ attempts' = note("notfound")
           /\ pc' = NextPos(sepIdx, TRUE)
           /\ UNCHANGED <<df_orders, df_products, successful_sep>>
        \/ \* line 25 raises another exception: continue
           /\ IsError(ro) /\ ro.err # "FileNotFoundError"
           /\ attempts' = note("failed")
           /\ pc' = NextPos(sepIdx, FALSE)
           /\ UNCHANGED <<df_orders, df_products, successful_sep>>
        \/ \* line 25 assigned df_orders, line 26 raises FileNotFoundError: break
           /\ ~IsError(ro) /\ IsError(rp) /\ rp.err = "FileNotFoundError"
           /\ df_orders' = tag(ro)
           /\ attempts' = note("notfound")
           /\ pc' = NextPos(sepIdx, TRUE)
           /\ UNCHANGED <<df_products, successful_sep>>
        \/ \* line 25 assigned df_orders, line 26 raises another exception: continue
           /\ ~IsError(ro) /\ IsError(rp) /\ rp.err # "FileNotFoundError"
           /\ df_orders' = tag(ro)
           /\ attempts' = note("failed")
           /\ pc' = NextPos(sepIdx, FALSE)
           /\ UNCHANGED <<df_products, successful_sep>>
        \/ \* both read, validation passes: break
           /\ ~IsError(ro) /\ ~IsError(rp) /\ Validate(ro, rp)
           /\ df_orders' = tag(ro) /\ df_products' = tag(rp)
           /\ successful_sep' = sep
           /\ attempts' = note("accepted")
           /\ pc' = NextPos(sepIdx, TRUE)
        \/ \* both read, validation fails: both reset, continue
           /\ ~IsError(ro) /\ ~IsError(rp) /\ ~Validate(ro, rp)
           /\ df_orders' = Rejected(tag(ro), tag(rp))[1]
           /\ df_products' = Rejected(tag(ro), tag(rp))[2]
           /\ attempts' = note("rejected")
           /\ pc' = NextPos(sepIdx, FALSE)
           /\ UNCHANGED successful_sep
    /\ sepIdx' = sepIdx + 1
    /\ UNCHANGED <<variant, df, joinlog, diag, out, loaderB, uiB>>

----------------------------------------------------------------------------
(* Variant A: the merge block, lines 46-92 *)

\* Missing value in a column of plain labels (category, location, ...)
NaNs == "<NaN>"

\* line 74: the row count under which the explosion warning is never printed
ExplosionFloor == 1000

\* lines 52-53: df[key] = df[key].astype(str).str.strip()
CleanKeys(rows) == [i \in 1..Len(rows) |-> [rows[i] EXCEPT !.pid = clean_key(@)]]

HasKey(rows, k) == \E i \in 1..Len(rows) : rows[i].pid = k

\* drop_duplicates left out: every row is kept
drop_duplicates_none(rows) == rows

\* drop_duplicates with keep='last'
RECURSIVE drop_duplicates_last(_)
drop_duplicates_last(rows) ==
    IF rows = <<>> THEN <<>>
    ELSE IF HasKey(Tail(rows), Head(rows).pid) THEN drop_duplicates_last(Tail(rows))
    ELSE <<Head(rows)>> \o drop_duplicates_last(Tail(rows))

\* line 58: drop_duplicates(subset=['Product ID'], keep='first')
RECURSIVE drop_duplicates(_)
drop_duplicates(rows) ==
    IF rows = <<>> THEN <<>>
    ELSE LET d == drop_duplicates(SubSeq(rows, 1, Len(rows) - 1))
             last == rows[Len(rows)]
         IN IF HasKey(d, last.pid) THEN d ELSE Append(d, last)

\* The rows one left row gives in a left merge: one per matching right row in
\* the right table's order, or one with a missing category
RECURSIVE JoinRow(_, _)
JoinRow(o, prods) ==
    IF prods = <<>> THEN <<>>
    ELSE (IF Head(prods).pid = o.pid
          THEN <<[cat |-> Head(prods).cat] @@ o>> ELSE <<>>)
         \o JoinRow(o, Tail(prods))

\* pd.merge with how='inner': a left row without a match is dropped
RECURSIVE merge_inner(_, _)
merge_inner(orders, prods) ==
    IF orders = <<>> THEN <<>>
    ELSE JoinRow(Head(orders), prods) \o merge_inner(Tail(orders), prods)

\* line 68: pd.merge(df_orders, df_products, on='Product ID', how='left')
RECURSIVE merge_left(_, _)
merge_left(orders, prods) ==
    IF orders = <<>> THEN <<>>
    ELSE LET m == JoinRow(Head(orders), prods)
         IN (IF m = <<>> THEN <<[cat |-> NaNs] @@ Head(orders)>> ELSE m)
            \o merge_left(Tail(orders), prods)

\* line 74: the explosion warning
ExplosionWarning(nMerged, nOrders) ==
    2 * nMerged > 3 * nOrders /\ nMerged > ExplosionFloor

DerivedInputs == {"Quantity (Units)", "Net Price ($)", "Tax Rate (%)"}

DerivedCols == {"Total Sales ($)", "Total Tax ($)", "Grand Total ($)"}

\* lines 80-82 on one row
Derive(r) ==
    LET sales == r.price * r.qty
        taxv  == (sales * r.tax) \div 100
    IN [total_sales |-> sales, total_tax |-> taxv, grand_total |-> sales + taxv] @@ r

\* lines 80-81: arithmetic on a column that holds text raises TypeError (a
\* text times a number of line 80 repeats the text; line 81 then multiplies it
\* by a float), after line 80 may already have added a column
DeriveRaises(t) ==
    /\ DerivedInputs \subseteq t.cols
    /\ \E i \in 1..Len(t.rows) :
          TextCell \in {t.rows[i].price, t.rows[i].qty, t.rows[i].tax}

\* The derived-field block with line 85 left out: the merged table stays
DerivedTable_keep(t) ==
    IF DerivedInputs \subseteq t.cols /\ ~DeriveRaises(t)
    THEN [cols |-> t.cols \cup DerivedCols,
          rows |-> [i \in 1..Len(t.rows) |-> Derive(t.rows[i])]]
    ELSE t

\* lines 78-90: the derived fields, or the empty table (line 85 when an input
\* column is missing, line 90 when the arithmetic raises)
DerivedTable(t) ==
    IF DerivedInputs \subseteq t.cols /\ ~DeriveRaises(t)
    THEN [cols |-> t.cols \cup DerivedCols,
          rows |-> [i \in 1..Len(t.rows) |-> Derive(t.rows[i])]]
    ELSE EmptyDF

\* line 46: the guard of the merge block
MergeGuard(o, p) == IsTable(o) /\ IsTable(p)

\* lines 46-92, after the loop.  A missing key column would raise KeyError at
\* line 52, which line 87 catches: df is the empty table
MergeBlock ==
    /\ variant = "A" /\ pc = "merge"
    /\ \/ /\ MergeGuard(df_orders, df_products)
          /\ IF KEY \in df_orders.cols /\ KEY \in df_products.cols
             THEN LET o      == [df_orders EXCEPT !.rows = CleanKeys(@)]
                      pclean == CleanKeys(df_products.rows)
                      p      == [df_products EXCEPT !.rows = drop_duplicates(pclean)]
                      m      == [cols |-> o.cols \cup p.cols,
                                 rows |-> merge_left(o.rows, p.rows)]
                      d      == DerivedTable(m)
                  IN /\ df_orders' = o
                     /\ df_products' = p
                     /\ df' = d
                     /\ joinlog' = [ran |-> TRUE, merged |-> m]
                     /\ diag' = (IF Len(pclean) # Len(p.rows)
                                 THEN {"INFO: Removed duplicates"} ELSE {})
                                \cup (IF ExplosionWarning(NRows(m), NRows(o))
                                      THEN {"CRITICAL WARNING"} ELSE {})
                                \cup (IF ~(DerivedInputs \subseteq m.cols)
                                      THEN {"Warning: Missing key columns"} ELSE {})
                                \cup (IF DeriveRaises(m)
                                      THEN {"Error during DataFrame merge or calculation"}
                                      ELSE {})
             ELSE /\ df' = EmptyDF
                  /\ joinlog' = [ran |-> TRUE, merged |-> EmptyDF]
                  /\ diag' = {"Error during DataFrame merge or calculation"}
                  /\ UNCHANGED <<df_orders, df_products>>
       \/ /\ ~MergeGuard(df_orders, df_products)
          /\ diag' = {"Dashboard cannot run"}
          /\ UNCHANGED <<df_orders, df_products, df, joinlog>>
    /\ pc' = "ready"
    /\ UNCHANGED <<variant, sepIdx, successful_sep, attempts, out, loaderB, uiB>>

----------------------------------------------------------------------------
(* Variant A: the callback, lines 184-249 *)

\* The filter assigned to the shared table
SharedAfter_inplace(t, filtered) == [t EXCEPT !.rows = filtered]

\* The callbacks bind the filtered frame to a local name (df.copy() and
\* boolean indexing make new frames): the shared df is what it was
SharedAfter(t, filtered) == t

LocsA == {"North", "South"}

AgesA == {"18-24", "25-34"}

\* lines 197-200: df[loc.isin(selected_locations) & age.isin(selected_age_groups)]
FilterA(t, selected_locations, selected_age_groups) ==
    SelectSeq(t.rows, LAMBDA r : r.loc \in selected_locations /\ r.age \in selected_age_groups)

\* lines 203-209: the three aggregates of the filtered frame; the mean of no
\* row is nan, which the format of line 209 prints
KPIs(rows) ==
    [sales |-> SumField(rows, "total_sales"),
     units |-> SumField(rows, "qty"),
     avg |-> IF rows = <<>> THEN NaNf ELSE SumField(rows, "price") \div Len(rows)]

\* lines 212-215: "$0.00", "0", "$0.00"
ZeroKPIs == [sales |-> 0, units |-> 0, avg |-> 0]

\* lines 212-215 left out: the aggregates of no row are shown as computed
ShownKPIs_raw(filtered) == KPIs(filtered)

\* lines 203-215: the aggregates, replaced by zeros when the filtered frame
\* has no row
ShownKPIs(filtered) == IF filtered = <<>> THEN ZeroKPIs ELSE KPIs(filtered)

\* line 188: "$N/A", "N/A", "$N/A"
NoKPIs == [na |-> TRUE]

update_dashboard ==
    /\ variant = "A" /\ pc = "ready"
    /\ \E selected_locations \in SUBSET LocsA, selected_age_groups \in SUBSET AgesA :
        LET f == FilterA(df, selected_locations, selected_age_groups)
            sel == [loc |-> selected_locations, age |-> selected_age_groups]
        IN /\ \/ \* lines 186-194: the table is empty
                 /\ IsEmpty(df)
                 /\ out' = [cb |-> "update_dashboard", sel |-> sel, rows |-> <<>>,
                            kpi |-> NoKPIs, fig |-> "Error: Data files not loaded"]
              \/ \* lines 212-215, 239-247: the filtered view is empty
                 /\ ~IsEmpty(df) /\ f = <<>>
                 /\ out' = [cb |-> "update_dashboard", sel |-> sel, rows |-> f,
                            kpi |-> ShownKPIs(f), fig |-> "No Data Selected"]
              \/ /\ ~IsEmpty(df) /\ f # <<>>
                 /\ out' = [cb |-> "update_dashboard", sel |-> sel, rows |-> f,
                            kpi |-> ShownKPIs(f), fig |-> "chart"]
           /\ df' = SharedAfter(df, f)
    /\ UNCHANGED <<variant, pc, diag, loaderA, loaderB, uiB>>

----------------------------------------------------------------------------
(* Variant B: texts and numbers *)

\* Missing value in a datetime column (NaT); days count from 1
NaT == 0

DigitChars == <<"0", "1", "2", "3", "4", "5", "6", "7", "8", "9">>

IsDigit(c) == \E i \in 1..10 : DigitChars[i] = c

DigitOf(c) == (CHOOSE i \in 1..10 : DigitChars[i] = c) - 1

AllDigits(s) == \A i \in 1..Len(s) : IsDigit(s[i])

RECURSIVE NatOf(_)
NatOf(s) == IF s = <<>> THEN 0
            ELSE NatOf(SubSeq(s, 1, Len(s) - 1)) * 10 + DigitOf(s[Len(s)])

RemoveChars(s, S) == SelectSeq(s, LAMBDA c : c \notin S)

\* float(text) raises ValueError
ParseErr == -2

\* float(text), in hundredths: digits with at most one decimal point (the
\* inputs hold at most two decimals), the text "nan" gives nan, anything else
\* raises ValueError
ParseFloat(s) ==
    LET t == strip(s)
        dots == {i \in 1..Len(t) : t[i] = "."}
    IN IF t = <<"n", "a", "n">> THEN NaNf
       ELSE IF dots = {}
       THEN IF t # <<>> /\ AllDigits(t) THEN NatOf(t) * 100 ELSE ParseErr
       ELSE IF Cardinality(dots) > 1 THEN ParseErr
       ELSE LET d == CHOOSE i \in dots : TRUE
                ip == SubSeq(t, 1, d - 1)
                fp == SubSeq(t, d + 1, Len(t))
            IN IF ~AllDigits(ip) \/ ~AllDigits(fp) \/ (ip = <<>> /\ fp = <<>>) THEN ParseErr
               ELSE NatOf(ip) * 100
                    + (IF Len(fp) = 0 THEN 0
                       ELSE IF Len(fp) = 1 THEN NatOf(fp) * 10
                       ELSE NatOf(SubSeq(fp, 1, 2)))

\* to_numeric without the str.replace of line 289
to_numeric_safe_raw(c) ==
    LET v == ParseFloat(astype_str(c))
    IN IF v = ParseErr THEN NaNf ELSE v

\* line 289 on one cell: astype(str), drop '$' and ',', to_numeric(errors='coerce')
to_numeric_safe(c) ==
    LET v == ParseFloat(RemoveChars(astype_str(c), {"$", ","}))
    IN IF v = ParseErr THEN NaNf ELSE v

\* line 325 on one cell: pd.to_datetime(errors='coerce'); a date text is
\* written by its day digits, anything else does not parse
to_datetime(c) == IF c # <<>> /\ AllDigits(c) /\ NatOf(c) > 0 THEN NatOf(c) ELSE NaT

\* astype(str) on a cell of a label column
astype_label(c) == IF c = NaNs THEN "nan" ELSE c

----------------------------------------------------------------------------
(* Variant B: the input files *)

\* Rows an Order_Details.csv may hold: a price with a currency symbol, a fee
\* with group separators, cells that are no number, a key repeated up to
\* whitespace, a missing key, a missing age group, a missing fee, a date that
\* does not parse
OrderRowsB ==
    { [pid |-> <<"A">>, date |-> <<"1">>, loc |-> "North", age |-> "18-24",
       season |-> "Winter", gender |-> "F",
       price |-> <<"$", "5", ".", "0", "0">>, qty |-> <<"2">>, ship |-> <<"1", ".", "5">>],
      [pid |-> <<" ", "A", " ">>, date |-> <<"s", "o", "o", "n">>, loc |-> "South",
       age |-> "65+", season |-> "Summer", gender |-> "M",
       price |-> <<"a", "b", "c">>, qty |-> <<"x">>,
       ship |-> <<"$", "1", ",", "0", "0", "0", ".", "0", "0">>],
      [pid |-> NaN, date |-> <<"2">>, loc |-> "North", age |-> NaNs,
       season |-> "Summer", gender |-> "F",
       price |-> <<"5", ".", "0", "1">>, qty |-> <<"1">>, ship |-> NaN] }

OrderColsB == {"Order ID", "Date", "Customer Name", KEY, "Quantity (Units)",
               "Net Price ($)", "Shipping Fee ($)", "Customer Location",
               "Customer Age Group", "Customer Gender", "Seasonality"}

\* lines 280-281: the fallback tables
DummyOrders == [cols |-> OrderColsB, rows |-> <<>>]

DummyProducts == [cols |-> {KEY, "Category", "Product Name"}, rows |-> <<>>]

\* What pd.read_csv(ORDER_PATH) can give: the file is missing, the parse
\* fails, a table, or a table that lacks an expected column
OrderReadsB ==
    { [err |-> "FileNotFoundError"], [err |-> "ParserError"] }
    \cup { [cols |-> OrderColsB, rows |-> r] : r \in SeqsUpTo(OrderRowsB, MaxOrders) }
    \cup { [cols |-> OrderColsB \ {c}, rows |-> r] :
             c \in {"Date", KEY, "Seasonality", "Net Price ($)"},
             r \in {<<>>, <<CHOOSE x \in OrderRowsB : x.pid = <<"A">>>>} }

\* Rows a Product_Details.csv may hold: a key repeated up to whitespace
ProductRowsB ==
    { [pid |-> <<"A">>, cat |-> "X"],
      [pid |-> <<"A", " ">>, cat |-> "Y"] }

\* What pd.read_csv(PRODUCT_PATH) can give
ProductReadsB ==
    { [err |-> "FileNotFoundError"], [err |-> "ParserError"],
      [cols |-> {"Product ID;Category"}, rows |-> <<>>],
      [cols |-> {"Category", "Product Name"}, rows |-> <<>>] }
    \cup { [cols |-> ProductCols, rows |-> r] : r \in SeqsUpTo(ProductRowsB, MaxProducts) }
    \cup { [cols |-> {"Category", "Product Name"},
                         rows |-> <<[pid |-> NaN, cat |-> "X"]>>],
                        [cols |-> {KEY, "Product Name"},
                         rows |-> <<[pid |-> <<"A">>, cat |-> NaNs]>>] }

----------------------------------------------------------------------------
(* Variant B: the loader, lines 274-341 *)

\* line 337: the upper price limit when the table has no price, in hundredths
DefaultPriceMax == 100000

AGE_ORDER == <<"18-24", "25-34", "35-44", "45-54", "55+">>

Range(q) == {q[i] : i \in 1..Len(q)}

KeyError == [err |-> "KeyError"]

\* The missing value of a text column
Missing(f) == IF f = "pid" THEN NaN ELSE NaNs

TextFields == {"pid", "loc", "age", "season", "gender", "cat"}

\* A text column read from a CSV has dtype object unless every cell is missing
ObjectFields(rows) ==
    {f \in TextFields : \E i \in 1..Len(rows) : f \in DOMAIN rows[i] /\ rows[i][f] # Missing(f)}

\* lines 300-301 on one row: astype(str).str.strip() on the object columns
StripRow(r, obj) ==
    [f \in DOMAIN r |-> IF f \notin obj THEN r[f]
                        ELSE IF f = "pid" THEN clean_key(r[f]) ELSE astype_label(r[f])]

\* line 305: dropna(subset=['Product ID'])
dropna(rows) == SelectSeq(rows, LAMBDA r : r.pid # NaN)

\* lines 298-306: clean_df(df, ['Product ID']); KeyError when a table with
\* rows has no 'Product ID' column
clean_df(t) ==
    LET obj == ObjectFields(t.rows)
        stripped == [i \in 1..Len(t.rows) |-> StripRow(t.rows[i], obj)]
    IN IF IsEmpty(t) THEN [t EXCEPT !.rows = stripped]
       ELSE IF KEY \notin t.cols THEN KeyError
       ELSE [t EXCEPT !.rows = dropna(drop_duplicates(stripped))]

\* lines 291-296 on one row
NumericRow(r, cols) ==
    [r EXCEPT !.price = IF "Net Price ($)" \in cols THEN to_numeric_safe(@) ELSE @,
              !.qty = IF "Quantity (Units)" \in cols THEN to_numeric_safe(@) ELSE @,
              !.ship = IF "Shipping Fee ($)" \in cols THEN to_numeric_safe(@) ELSE @]

NumericTable(t) == [t EXCEPT !.rows = [i \in 1..Len(@) |-> NumericRow(@[i], t.cols)]]

\* lines 312-316: the merge, or the orders with category 'Unknown'
MergeB(o, p) ==
    IF ~IsEmpty(o) /\ ~IsEmpty(p)
    THEN [cols |-> o.cols \cup ({KEY, "Category"} \cap p.cols),
          rows |-> IF "Category" \in p.cols THEN merge_left(o.rows, p.rows) ELSE o.rows]
    ELSE [cols |-> o.cols \cup {"Category"},
          rows |-> [i \in 1..Len(o.rows) |-> [cat |-> "Unknown"] @@ o.rows[i]]]

\* line 321: AGE_ORDER, then the other non-missing values in first-seen order
RECURSIVE Unseen(_, _)
Unseen(rows, seen) ==
    IF rows = <<>> THEN <<>>
    ELSE IF Head(rows).age \in seen \/ Head(rows).age = NaNs
         THEN Unseen(Tail(rows), seen)
         ELSE <<Head(rows).age>> \o Unseen(Tail(rows), seen \cup {Head(rows).age})

ExtendedOrder(rows) == AGE_ORDER \o Unseen(rows, Range(AGE_ORDER))

\* lines 325-326: parse the dates, drop the rows whose date did not parse
ParseDates(rows) ==
    SelectSeq([i \in 1..Len(rows) |-> [rows[i] EXCEPT !.date = to_datetime(@)]],
              LAMBDA r : r.date # NaT)

Prices(t) == {t.rows[i].price : i \in 1..NRows(t)} \ {NaNf}

\* Series.min() / Series.max(): the missing values are skipped; nan if none is left
SeriesMin(S) == IF S = {} THEN NaNf ELSE CHOOSE x \in S : \A y \in S : x <= y

SeriesMax(S) == IF S = {} THEN NaNf ELSE CHOOSE x \in S : \A y \in S : x >= y

\* line 336
PriceMinLimit(t) ==
    IF "Net Price ($)" \in t.cols /\ ~IsEmpty(t) THEN SeriesMin(Prices(t)) ELSE 0

\* line 337
PriceMaxLimit(t) ==
    IF "Net Price ($)" \in t.cols /\ ~IsEmpty(t) THEN SeriesMax(Prices(t)) ELSE DefaultPriceMax

\* The columns lines 325-333 index without a test
RequiredCols == {"Date", "Category", "Customer Location", "Seasonality"}

\* lines 274-281: the two reads.  Only FileNotFoundError is caught
ReadB ==
    /\ variant = "B" /\ pc = "read"
    /\ \E ro \in OrderReadsB, rp \in ProductReadsB :
        \/ \* a file is missing: the fallback tables
           /\ \/ (IsError(ro) /\ ro.err = "FileNotFoundError")
              \/ (~IsError(ro) /\ IsError(rp) /\ rp.err = "FileNotFoundError")
           /\ order_data' = DummyOrders /\ product_data' = DummyProducts
           /\ diag' = {"CSV files not found. Using dummy data structure."}
           /\ pc' = "clean"
        \/ \* another exception leaves the try statement
           /\ \/ (IsError(ro) /\ ro.err # "FileNotFoundError")
              \/ (~IsError(ro) /\ IsError(rp) /\ rp.err # "FileNotFoundError")
           /\ diag' = {"Traceback: ParserError"}
           /\ pc' = "fault"
           /\ UNCHANGED <<order_data, product_data>>
        \/ /\ ~IsError(ro) /\ ~IsError(rp)
           /\ order_data' = ro /\ product_data' = rp
           /\ pc' = "clean"
           /\ UNCHANGED diag
    /\ UNCHANGED <<variant, df, out, loaderA, extended_order, price_min_limit,
                   price_max_limit, uiB>>

\* Python None where a number is expected
NoneNum == -3

\* Python None or '' where a date is expected
NoDate == 0

RECURSIVE IntText(_)
IntText(n) == IF n < 10 THEN <<DigitChars[n + 1]>>
              ELSE IntText(n \div 10) \o <<DigitChars[(n % 10) + 1]>>

\* The ',' option of a format spec: a comma before every group of three digits
RECURSIVE Grouped(_)
Grouped(d) == IF Len(d) <= 3 THEN d
              ELSE Grouped(SubSeq(d, 1, Len(d) - 3)) \o <<",">> \o SubSeq(d, Len(d) - 2, Len(d))

\* The '.0f' of a format spec: hundredths to units, halves to the even unit
RoundUnits(h) ==
    LET q == h \div 100
        r == h % 100
    IN IF r < 50 THEN q ELSE IF r > 50 THEN q + 1 ELSE IF q % 2 = 0 THEN q ELSE q + 1

\* lines 359-364
format_number(numeric_value) ==
    IF numeric_value = NoneNum THEN <<>>
    ELSE IF numeric_value = NaNf THEN <<"n", "a", "n">>
    ELSE Grouped(IntText(RoundUnits(numeric_value)))

\* lines 346-357; '' and None are both the empty text
clean_and_convert(text_value, fallback_value) ==
    IF text_value = <<>> THEN fallback_value
    ELSE LET clean_value == strip(RemoveChars(text_value, {",", "$"}))
         IN IF clean_value = <<>> \/ clean_value \in {<<".">>, <<"-">>} THEN fallback_value
            ELSE LET v == ParseFloat(clean_value)
                 IN IF v = ParseErr THEN fallback_value ELSE v

\* lines 435-442, 524-540: the stores and the price inputs of the layout; Dash
\* then makes the initial call of update_numeric_price_store
Layout(lo, hi) ==
    /\ theme_store' = "light" /\ n_clicks' = 0
    /\ price_min_store' = lo /\ price_max_store' = hi
    /\ filter_price_min' = format_number(lo)
    /\ filter_price_max' = format_number(hi)
    /\ pending' = "numeric"

\* lines 283-341: coercion, clean_df, merge, age order, dates, options, limits
CleanB ==
    /\ variant = "B" /\ pc = "clean"
    /\ LET o == clean_df(NumericTable(order_data))
           p == clean_df(product_data)
       IN IF IsError(o) \/ IsError(p)
          THEN /\ pc' = "fault" /\ diag' = diag \cup {"Traceback: KeyError"}
               /\ UNCHANGED <<df, order_data, product_data, extended_order,
                              price_min_limit, price_max_limit, uiB>>
          ELSE LET m == MergeB(o, p)
                   d == [m EXCEPT !.rows = ParseDates(@)]
               IN /\ order_data' = o /\ product_data' = p
                  /\ extended_order' = IF "Customer Age Group" \in m.cols
                                       THEN ExtendedOrder(m.rows) ELSE extended_order
                  /\ IF RequiredCols \subseteq m.cols
                     THEN /\ df' = d
                          /\ price_min_limit' = PriceMinLimit(d)
                          /\ price_max_limit' = PriceMaxLimit(d)
                          /\ Layout(PriceMinLimit(d), PriceMaxLimit(d))
                          /\ pc' = "ready"
                          /\ UNCHANGED diag
                     ELSE /\ df' = (IF "Date" \in m.cols THEN d ELSE m)
                          /\ pc' = "fault" /\ diag' = diag \cup {"Traceback: KeyError"}
                          /\ UNCHANGED <<price_min_limit, price_max_limit, uiB>>
    /\ UNCHANGED <<variant, out, loaderA>>

----------------------------------------------------------------------------
(* Variant B: the filter engine, lines 644-663 *)

\* A multi-select value: None, or a list (here the set of its values)
NoneSel == [none |-> TRUE, vals |-> {}]

ListSel(S) == [none |-> FALSE, vals |-> S]

\* `is not None` in place of the truth test: an empty list filters
Truthy_list(sel) == ~sel.none

\* Python truth of a multi-select value: None and [] are false
Truthy(sel) == ~sel.none /\ sel.vals # {}

\* >= and <= of pandas: a comparison with nan is false
Ge(a, b) == a # NaNf /\ b # NaNf /\ a >= b

Le(a, b) == a # NaNf /\ b # NaNf /\ a <= b

\* line 647
ByDate(rows, start_date, end_date) ==
    SelectSeq(rows, LAMBDA r : r.date >= start_date /\ r.date <= end_date)

\* lines 649-656: Series.isin on one column
ByLabel(rows, f, sel) == SelectSeq(rows, LAMBDA r : r[f] \in sel.vals)

\* The upper bound exclusive
ByPrice_exclusive(rows, price_min, price_max) ==
    SelectSeq(rows, LAMBDA r : Ge(r.price, price_min) /\ r.price # NaNf /\ r.price < price_max)

\* line 661
ByPrice(rows, price_min, price_max) ==
    SelectSeq(rows, LAMBDA r : Ge(r.price, price_min) /\ Le(r.price, price_max))

\* Each label filter taken from the unfiltered frame instead of the running one
filter_df_restart(dff, category, location, start_date, end_date, age, season, price_min, price_max) ==
    LET d1 == IF start_date # NoDate /\ end_date # NoDate
              THEN ByDate(dff, start_date, end_date) ELSE dff
        d2 == IF Truthy(category) THEN ByLabel(dff, "cat", category) ELSE d1
        d3 == IF Truthy(location) THEN ByLabel(dff, "loc", location) ELSE d2
        d4 == IF Truthy(age) THEN ByLabel(dff, "age", age) ELSE d3
        d5 == IF Truthy(season) THEN ByLabel(dff, "season", season) ELSE d4
    IN IF price_min # NoneNum /\ price_max # NoneNum
       THEN ByPrice(d5, price_min, price_max) ELSE d5

\* lines 644-663 on the rows of dff
filter_df(dff, category, location, start_date, end_date, age, season, price_min, price_max) ==
    LET d1 == IF start_date # NoDate /\ end_date # NoDate
              THEN ByDate(dff, start_date, end_date) ELSE dff
        d2 == IF Truthy(category) THEN ByLabel(d1, "cat", category) ELSE d1
        d3 == IF Truthy(location) THEN ByLabel(d2, "loc", location) ELSE d2
        d4 == IF Truthy(age) THEN ByLabel(d3, "age", age) ELSE d3
        d5 == IF Truthy(season) THEN ByLabel(d4, "season", season) ELSE d4
    IN IF price_min # NoneNum /\ price_max # NoneNum
       THEN ByPrice(d5, price_min, price_max) ELSE d5

\* filter_df on a record of criteria
Filter(rows, c) ==
    filter_df(rows, c.category, c.location, c.start_date, c.end_date, c.age, c.season,
              c.price_min, c.price_max)

\* filter_df indexes 'Net Price ($)' when both price bounds are given
FilterRaises(t, c) ==
    c.price_min # NoneNum /\ c.price_max # NoneNum /\ "Net Price ($)" \notin t.cols

----------------------------------------------------------------------------
(* Variant B: the callbacks *)

MaxClicks == 2

\* Values the controls can hand to update_tabs and chatbot_ask: nothing set
\* (the controls as the layout builds them), a selection; the price bounds come
\* from the two stores
UICriteria ==
    { [category |-> NoneSel, location |-> NoneSel, start_date |-> NoDate,
       end_date |-> NoDate, age |-> NoneSel, season |-> NoneSel],
      [category |-> ListSel({"X"}), location |-> ListSel({"North"}), start_date |-> 1,
       end_date |-> 2, age |-> NoneSel, season |-> ListSel({"Winter"})] }

Tabs == {"tab-1", "tab-3"}

\* The text a user types into a price input
PriceTexts == { <<"$", "1", ",", "0", "0", "0">> }

\* Outcomes of requests.post and of reading the reply: a reply with content,
\* a network error, a timeout, a body that is not JSON, JSON without "choices",
\* an empty "choices" list, a choice whose message has no "content"
HttpOutcomes == {"reply", "network", "timeout", "not_json", "no_choices",
                 "empty_choices", "no_content"}

WithPrices(c, lo, hi) == [price_min |-> lo, price_max |-> hi] @@ c

\* lines 679-692 and the tabs: the filtered view, the no-data message or a tab
update_tabs ==
    /\ variant = "B" /\ pc = "ready"
    /\ \E tab \in Tabs, c \in UICriteria :
        LET crit == WithPrices(c, price_min_store, price_max_store)
            f == IF FilterRaises(df, crit) THEN <<>> ELSE Filter(df.rows, crit)
        IN /\ out' = [cb |-> "update_tabs", crit |-> crit, rows |-> f,
                      content |-> IF FilterRaises(df, crit) THEN "KeyError"
                                  ELSE IF f = <<>> THEN "No data available for the selected filters."
                                  ELSE tab]
           /\ df' = SharedAfter(df, f)
    /\ UNCHANGED <<variant, pc, diag, loaderA, loaderB, uiB>>

\* An except clause for the exceptions of requests alone: a body that is not
\* JSON and an empty "choices" list leave chatbot_ask as exceptions
Reply_requests_only(http) ==
    CASE http = "reply" -> "content"
      [] http = "network" -> "Error: ConnectionError"
      [] http = "timeout" -> "Error: ReadTimeout"
      [] http = "not_json" -> "JSONDecodeError"
      [] http = "no_choices" -> "No reply from AI."
      [] http = "empty_choices" -> "IndexError"
      [] http = "no_content" -> "No reply from AI."

\* lines 885-890: the reply shown for an outcome of the request.  requests.post
\* raises on a network error and on a timeout, response.json() on a body that
\* is not JSON, [][0] raises IndexError; the defaults of the three .get calls
\* give "No reply from AI."
Reply(http) ==
    CASE http = "reply" -> "content"
      [] http = "network" -> "Error: ConnectionError"
      [] http = "timeout" -> "Error: ReadTimeout"
      [] http = "not_json" -> "Error: JSONDecodeError"
      [] http = "no_choices" -> "No reply from AI."
      [] http = "empty_choices" -> "Error: list index out of range"
      [] http = "no_content" -> "No reply from AI."

\* dff['Net Price ($)'].sum()
SumPrice(rows) == SumField(rows, "price")

\* groupby(f)['Net Price ($)'].sum(): the groups with the largest sum; rows
\* whose key is missing belong to no group, and no group gives 'None'
TopGroups(rows, f) ==
    LET keys == {rows[i][f] : i \in 1..Len(rows)} \ {NaNs}
        tot(k) == SumPrice(SelectSeq(rows, LAMBDA r : r[f] = k))
    IN IF keys = {} THEN {"None"}
       ELSE {k \in keys : \A j \in keys : tot(k) >= tot(j)}

\* lines 841-856: the text for an empty frame, or the top category, the top
\* location (sort_values leaves the order of equal sums open) and the revenue
generate_dashboard_summary(dff) ==
    IF dff = <<>> THEN [text |-> "No data in current filter."]
    ELSE [top_cat |-> TopGroups(dff, "cat"), top_loc |-> TopGroups(dff, "loc"),
          total_rev |-> SumPrice(dff)]

\* lines 875-891
chatbot_ask ==
    /\ variant = "B" /\ pc = "ready"
    /\ \E c \in UICriteria, http \in HttpOutcomes :
        LET crit == WithPrices(c, price_min_store, price_max_store)
            f == IF FilterRaises(df, crit) THEN <<>> ELSE Filter(df.rows, crit)
        IN /\ out' = [cb |-> "chatbot_ask", crit |-> crit, rows |-> f,
                      summary |-> IF FilterRaises(df, crit) THEN [text |-> "KeyError"]
                                  ELSE generate_dashboard_summary(f),
                      content |-> IF FilterRaises(df, crit) THEN "KeyError" ELSE Reply(http)]
           /\ df' = SharedAfter(df, f)
    /\ UNCHANGED <<variant, pc, diag, loaderA, loaderB, uiB>>

\* The test of the stored theme left out of line 605: a click always gives dark
ThemeAfter_stuck(clicks, current_theme) ==
    IF clicks # 0 THEN "dark" ELSE "light"

\* lines 604-608: the theme after a call
ThemeAfter(clicks, current_theme) ==
    IF clicks # 0 /\ current_theme = "light" THEN "dark" ELSE "light"

\* lines 603-642: a click of the toggle button
toggle_theme ==
    /\ variant = "B" /\ pc = "ready" /\ n_clicks < MaxClicks
    /\ n_clicks' = n_clicks + 1
    /\ theme_store' = ThemeAfter(n_clicks + 1, theme_store)
    /\ out' = [cb |-> "toggle_theme",
               wrapper_class |-> IF ThemeAfter(n_clicks + 1, theme_store) = "dark"
                                 THEN "dark-theme" ELSE "light-theme",
               label |-> IF ThemeAfter(n_clicks + 1, theme_store) = "dark"
                         THEN "Light Mode" ELSE "Dark Mode"]
    /\ UNCHANGED <<variant, pc, df, diag, loaderA, loaderB, price_min_store,
                   price_max_store, filter_price_min, filter_price_max, pending>>

\* The user edits one of the two price inputs
TypePrice ==
    /\ variant = "B" /\ pc = "ready" /\ pending = "idle"
    /\ \E t \in PriceTexts :
        \/ filter_price_min' = t /\ UNCHANGED filter_price_max
        \/ filter_price_max' = t /\ UNCHANGED filter_price_min
    /\ pending' = "numeric"
    /\ UNCHANGED <<variant, pc, df, diag, out, loaderA, loaderB, theme_store, n_clicks,
                   price_min_store, price_max_store>>

\* lines 561-570
update_numeric_price_store ==
    /\ variant = "B" /\ pc = "ready" /\ pending = "numeric"
    /\ price_min_store' = clean_and_convert(filter_price_min, price_min_limit)
    /\ price_max_store' = clean_and_convert(filter_price_max, price_max_limit)
    /\ pending' = "display"
    /\ UNCHANGED <<variant, pc, df, diag, out, loaderA, loaderB, theme_store, n_clicks,
                   filter_price_min, filter_price_max>>

\* lines 580-582; a changed input value calls update_numeric_price_store again
format_price_display ==
    /\ variant = "B" /\ pc = "ready" /\ pending = "display"
    /\ filter_price_min' = format_number(price_min_store)
    /\ filter_price_max' = format_number(price_max_store)
    /\ pending' = IF <<filter_price_min', filter_price_max'>> = <<filter_price_min, filter_price_max>>
                  THEN "idle" ELSE "numeric"
    /\ UNCHANGED <<variant, pc, df, diag, out, loaderA, loaderB, theme_store, n_clicks,
                   price_min_store, price_max_store>>

----------------------------------------------------------------------------
(* The filter engine called with every combination of criteria *)

Criteria ==
    [category : {NoneSel, ListSel({"X"})},
     location : {ListSel({}), ListSel({"North"})},
     start_date : {NoDate, 2}, end_date : {NoDate, 2},
     age : {NoneSel, ListSel({"18-24", "nan"})},
     season : {ListSel({}), ListSel({"Winter"})},
     price_min : {NoneNum, 500}, price_max : {NoneNum, 500}]

\* The first call of filter_df on the loaded table
ApplyFilter ==
    /\ variant = "B" /\ pc = "ready" /\ out = NoOut
    /\ \E c \in Criteria :
        /\ out' = [cb |-> "filter_df", crit |-> c,
                   raised |-> FilterRaises(df, c),
                   rows |-> IF FilterRaises(df, c) THEN <<>> ELSE Filter(df.rows, c)]
        /\ df' = SharedAfter(df, out'.rows)
    /\ UNCHANGED <<variant, pc, diag, loaderA, loaderB, uiB>>

----------------------------------------------------------------------------
(* The program *)

NoJoin == [ran |-> FALSE, merged |-> EmptyDF]

InitA ==
    /\ variant = "A" /\ pc = "loop" /\ sepIdx = 1
    /\ df_orders = NoneT /\ df_products = NoneT /\ successful_sep = "None"
    /\ df = EmptyDF
    /\ attempts = <<>> /\ joinlog = NoJoin /\ diag = {} /\ out = NoOut
    /\ order_data = NoneT /\ product_data = NoneT /\ extended_order = <<>>
    /\ price_min_limit = 0 /\ price_max_limit = 0
    /\ theme_store = "light" /\ n_clicks = 0
    /\ price_min_store = 0 /\ price_max_store = 0
    /\ filter_price_min = <<>> /\ filter_price_max = <<>> /\ pending = "idle"

InitB ==
    /\ variant = "B" /\ pc = "read" /\ sepIdx = 1
    /\ df_orders = NoneT /\ df_products = NoneT /\ successful_sep = "None"
    /\ df = EmptyDF
    /\ attempts = <<>> /\ joinlog = NoJoin /\ diag = {} /\ out = NoOut
    /\ order_data = NoneT /\ product_data = NoneT /\ extended_order = <<>>
    /\ price_min_limit = 0 /\ price_max_limit = 0
    /\ theme_store = "light" /\ n_clicks = 0
    /\ price_min_store = 0 /\ price_max_store = 0
    /\ filter_price_min = <<>> /\ filter_price_max = <<>> /\ pending = "idle"

NextA == TryDelimiter \/ MergeBlock \/ update_dashboard

NextB == ReadB \/ CleanB \/ update_tabs \/ chatbot_ask \/ toggle_theme
           \/ TypePrice \/ update_numeric_price_store \/ format_price_display

Init == InitA \/ InitB

Next == NextA \/ NextB

Spec == Init /\ [][Next]_vars

\* The loaders and the two filter paths, the filter engine called directly
NextFilter == TryDelimiter \/ MergeBlock \/ update_dashboard \/ ReadB \/ CleanB \/ ApplyFilter

SpecFilter == Init /\ [][NextFilter]_vars

----------------------------------------------------------------------------
(* Claims about the variant A loader *)

\* The step of variant A that cleans the keys, dedupes and merges
MergeStepA == variant = "A" /\ pc = "merge" /\ pc' = "ready" /\ joinlog'.ran

\* The smallest element of a non-empty set of indices
MinOf(S) == CHOOSE i \in S : \A j \in S : i <= j

\* Indices of the rows of a table whose normalized key is k
KeyIdx(rows, k) == {j \in 1..Len(rows) : clean_key(rows[j].pid) = k}

\* C1: the table produced by left-joining orders to the deduplicated
\* products on the normalized 'Product ID' has exactly as many rows as the
\* orders table, whatever the products table holds
C1_JoinKeepsRowCount ==
    [][MergeStepA => NRows(joinlog'.merged) = NRows(df_orders)]_vars

\* C1 witness: a join of two orders ran against a products table that held a
\* repeated key; one order matched and one did not
C1_Witness ==
    /\ variant = "A" /\ joinlog.ran
    /\ "INFO: Removed duplicates" \in diag
    /\ NRows(joinlog.merged) >= 2
    /\ \E i, j \in 1..NRows(joinlog.merged) :
          joinlog.merged.rows[i].cat = NaNs /\ joinlog.merged.rows[j].cat # NaNs

\* C3: each joined record carries the category of the first-seen product whose
\* key equals the order's key after both are converted to text and stripped,
\* and a missing category when no product has that key
C3_FirstSeenCategory ==
    [][MergeStepA =>
         /\ NRows(joinlog'.merged) = NRows(df_orders)
         /\ \A i \in 1..NRows(df_orders) :
              LET k == clean_key(df_orders.rows[i].pid)
                  idx == KeyIdx(df_products.rows, k)
                  row == joinlog'.merged.rows[i]
              IN /\ row.pid = k
                 /\ row.loc = df_orders.rows[i].loc
                 /\ row.cat = IF idx = {} THEN NaNs
                              ELSE df_products.rows[MinOf(idx)].cat]_vars

\* C3 witness: the scenario of the spec, one order for "A" against products
\* (A,X),(A,Y), gave one joined row with category X
C3_Witness ==
    /\ variant = "A" /\ joinlog.ran
    /\ NRows(joinlog.merged) = 1
    /\ joinlog.merged.rows[1].pid = <<"A">> /\ joinlog.merged.rows[1].cat = "X"
    /\ "INFO: Removed duplicates" \in diag
    /\ df_products.rows = <<[pid |-> <<"A">>, cat |-> "X"]>>

\* C4: candidates are tried in the order comma, semicolon, tab; a candidate is
\* accepted exactly when both files parse, both hold 'Product ID' and both have
\* more than one column; nothing is tried after an accepted candidate, and the
\* accepted candidate is the delimiter settled on
C4_DelimiterResolution ==
    variant = "A" =>
      /\ Len(attempts) <= Len(DELIMITERS)
      /\ \A i \in 1..Len(attempts) :
           /\ attempts[i].sep = DELIMITERS[i]
           /\ (attempts[i].verdict = "accepted") <=> attempts[i].ok
           /\ attempts[i].verdict = "accepted" => i = Len(attempts)
      /\ IF \E i \in 1..Len(attempts) : attempts[i].ok
         THEN successful_sep = attempts[MinOf({i \in 1..Len(attempts) : attempts[i].ok})].sep
         ELSE successful_sep = "None"
      /\ (pc = "loop") <=> /\ Len(attempts) < Len(DELIMITERS)
                           /\ \A i \in 1..Len(attempts) :
                                attempts[i].verdict \in {"rejected", "failed"}

\* C4 witness: comma and semicolon were tried and turned down, tab was accepted
C4_Witness ==
    /\ variant = "A" /\ Len(attempts) = 3
    /\ attempts[1].verdict = "rejected" /\ attempts[2].verdict = "failed"
    /\ attempts[3].verdict = "accepted" /\ successful_sep = "\t"

\* C5: when no candidate is accepted or a file is missing, the merge stage
\* never runs and the shared table has zero rows; the tables that reach the join
\* are the two parsed under the accepted candidate
C5_NoAcceptNoMerge ==
    variant = "A" =>
      /\ (pc = "ready" /\ successful_sep = "None") =>
            ~joinlog.ran /\ df = EmptyDF /\ NRows(df) = 0
      /\ (\E i \in 1..Len(attempts) : attempts[i].verdict = "notfound") =>
            ~joinlog.ran /\ df = EmptyDF
      /\ joinlog.ran =>
            /\ successful_sep # "None"
            /\ df_orders.src = successful_sep /\ df_products.src = successful_sep

\* C5 witness: the load ended with no candidate accepted while df_orders still
\* held a table read just before a products read failed
C5_Witness ==
    /\ variant = "A" /\ pc = "ready" /\ successful_sep = "None"
    /\ IsTable(df_orders) /\ NRows(df_orders) >= 1
    /\ Len(attempts) = 3 /\ attempts[1].verdict = "rejected"
    /\ attempts[3].verdict = "failed"

----------------------------------------------------------------------------
(* Claims about deduplication and the load stage of both variants *)

\* The step of variant B that cleans, merges and builds the layout
CleanStepB == variant = "B" /\ pc = "clean" /\ pc' = "ready"

\* The rows of a table after lines 300-301, the keys normalized
StrippedB(t) == [i \in 1..Len(t.rows) |-> StripRow(t.rows[i], ObjectFields(t.rows))]

\* What deduplication of src (keys already normalized) gives: at most one row
\* per key, every key that is not missing kept, each kept row the first row of
\* src with its key, in source order
DedupOK(src, res) ==
    /\ \A i, j \in 1..Len(res) : res[i].pid = res[j].pid => i = j
    /\ \A j \in 1..Len(src) :
          src[j].pid # NaN => \E i \in 1..Len(res) : res[i].pid = src[j].pid
    /\ \A i \in 1..Len(res) :
          /\ \E j \in 1..Len(src) : src[j].pid = res[i].pid
          /\ res[i] = src[MinOf({j \in 1..Len(src) : src[j].pid = res[i].pid})]
    /\ \A i, j \in 1..Len(res) :
          i < j => MinOf({k \in 1..Len(src) : src[k].pid = res[i].pid})
                     < MinOf({k \in 1..Len(src) : src[k].pid = res[j].pid})

\* C2: deduplication of the products table leaves at most one row per distinct
\* normalized key, the kept row of a repeated key is the first in source order,
\* and deduplicating the result again changes nothing (variant A lines 52-62
\* and clean_df of variant B)
C2_DedupFirstWinsIdempotent ==
    [][/\ MergeStepA =>
            /\ DedupOK(CleanKeys(df_products.rows), df_products'.rows)
            /\ drop_duplicates(CleanKeys(df_products'.rows)) = df_products'.rows
       /\ CleanStepB =>
            /\ DedupOK(StrippedB(product_data), product_data'.rows)
            /\ clean_df(product_data') = product_data']_vars

\* C2 witness: variant A removed a duplicate from a products table whose first
\* row was (A, Y) and kept that row alone; two orders were joined to it
C2_Witness ==
    /\ variant = "A" /\ joinlog.ran /\ "INFO: Removed duplicates" \in diag
    /\ df_products.rows = <<[pid |-> <<"A">>, cat |-> "Y"]>>
    /\ NRows(joinlog.merged) = 2

\* C6: the load stage of each variant ends with a joined table or in the empty
\* state; no error leaves the loader unhandled
C6_NoUnhandledFault == pc # "fault"

----------------------------------------------------------------------------
(* Claims about the filter engine *)

\* The conjunction of the supplied predicates, as the specification states it
Keeps(r, c) ==
    /\ (c.start_date # NoDate /\ c.end_date # NoDate)
          => (c.start_date <= r.date /\ r.date <= c.end_date)
    /\ (~c.category.none /\ c.category.vals # {}) => r.cat \in c.category.vals
    /\ (~c.location.none /\ c.location.vals # {}) => r.loc \in c.location.vals
    /\ (~c.age.none /\ c.age.vals # {}) => r.age \in c.age.vals
    /\ (~c.season.none /\ c.season.vals # {}) => r.season \in c.season.vals
    /\ (c.price_min # NoneNum /\ c.price_max # NoneNum)
          => (r.price # NaNf /\ c.price_min <= r.price /\ r.price <= c.price_max)

FilterCalled == variant = "B" /\ out.cb = "filter_df" /\ ~out.raised

\* C7: filter_df retains a record if and only if it satisfies every supplied
\* predicate, the bounds of the date and price ranges included; with price range
\* [5,5] a record priced 5.00 is retained and one priced 5.01 is excluded
C7_FilterConjunction ==
    FilterCalled => out.rows = SelectSeq(df.rows, LAMBDA r : Keeps(r, out.crit))

\* C7 witness: the table holds a record priced 5.00 and one priced 5.01; the
\* price range [5,5] alone retained the first and excluded the second
C7_Witness ==
    /\ FilterCalled
    /\ out.crit.price_min = 500 /\ out.crit.price_max = 500
    /\ NRows(df) = 2 /\ df.rows[1].price = 500 /\ df.rows[2].price = 501
    /\ out.rows = <<df.rows[1]>>

\* No criterion supplied
AllUnset(c) ==
    /\ c.start_date = NoDate \/ c.end_date = NoDate
    /\ c.price_min = NoneNum \/ c.price_max = NoneNum
    /\ \A d \in {"category", "location", "age", "season"} : c[d].none \/ c[d].vals = {}

DashboardCalled == variant = "A" /\ out.cb = "update_dashboard" /\ ~IsEmpty(df)

Dims == {"date", "category", "location", "age", "season", "price"}

\* The criteria c with only the predicates of D supplied
Only(c, D) ==
    [category |-> IF "category" \in D THEN c.category ELSE NoneSel,
     location |-> IF "location" \in D THEN c.location ELSE NoneSel,
     age |-> IF "age" \in D THEN c.age ELSE NoneSel,
     season |-> IF "season" \in D THEN c.season ELSE NoneSel,
     start_date |-> IF "date" \in D THEN c.start_date ELSE NoDate,
     end_date |-> IF "date" \in D THEN c.end_date ELSE NoDate,
     price_min |-> IF "price" \in D THEN c.price_min ELSE NoneNum,
     price_max |-> IF "price" \in D THEN c.price_max ELSE NoneNum]

\* The predicates the criteria c supply
Supplied(c) ==
    {d \in {"category", "location", "age", "season"} : ~c[d].none /\ c[d].vals # {}}
      \cup (IF c.start_date # NoDate /\ c.end_date # NoDate THEN {"date"} ELSE {})
      \cup (IF c.price_min # NoneNum /\ c.price_max # NoneNum THEN {"price"} ELSE {})

\* C10: for two predicates A and B, filtering with both supplied gives the
\* records of filtering with A alone and then filtering that result with B
\* alone, in either order
C10_FilterComposes ==
    FilterCalled =>
      \A a, b \in Dims :
        a # b =>
          /\ Filter(df.rows, Only(out.crit, {a, b}))
               = Filter(Filter(df.rows, Only(out.crit, {a})), Only(out.crit, {b}))
          /\ Supplied(out.crit) = {a, b} =>
               out.rows = Filter(Filter(df.rows, Only(out.crit, {a})), Only(out.crit, {b}))

\* C10 witness: a category and a date range were supplied; each alone keeps a
\* record the other excludes, both together keep none
C10_Witness ==
    /\ FilterCalled /\ Supplied(out.crit) = {"category", "date"}
    /\ Filter(df.rows, Only(out.crit, {"category"})) # <<>>
    /\ Filter(df.rows, Only(out.crit, {"date"})) # <<>>
    /\ Filter(df.rows, Only(out.crit, {"category"})) # df.rows
    /\ Filter(df.rows, Only(out.crit, {"date"})) # df.rows
    /\ out.rows = <<>>

----------------------------------------------------------------------------
(* Claims about the shared table *)

\* The table the loader built, from what the loader left behind
LoadedTable ==
    IF variant = "A"
    THEN IF joinlog.ran THEN DerivedTable(joinlog.merged) ELSE EmptyDF
    ELSE LET m == MergeB(order_data, product_data)
         IN [m EXCEPT !.rows = ParseDates(@)]

\* C9: after any sequence of update_dashboard, update_tabs, chatbot_ask, the
\* price callbacks and toggle_theme the shared table is the table built at load
\* time, and what a filtering callback shows depends on its criteria and that
\* table only
C9_SharedTableReadOnly ==
    pc = "ready" =>
      /\ df = LoadedTable
      /\ out.cb \in {"update_tabs", "chatbot_ask"} /\ out.content # "KeyError" =>
            out.rows = Filter(LoadedTable.rows, out.crit)
      /\ out.cb = "update_dashboard" =>
            out.rows = FilterA(LoadedTable, out.sel.loc, out.sel.age)

\* C9 witness: the theme was toggled, a price was typed and stored, and
\* update_tabs then showed a strict part of a table of two records
C9_Witness ==
    /\ variant = "B" /\ pc = "ready" /\ n_clicks >= 1
    /\ price_max_store = 100000 /\ pending = "idle"
    /\ out.cb = "update_tabs" /\ NRows(df) = 2
    /\ Len(out.rows) = 1

----------------------------------------------------------------------------
(* Claims about the variant B loader *)

\* The rows of the orders file that have a product identifier and a date that
\* parses
ValidOrders(rows) == SelectSeq(rows, LAMBDA r : r.pid # NaN /\ to_datetime(r.date) # NaT)

\* C11: the joined table of variant B holds exactly one record for every row of
\* the orders file that has a product identifier and a parseable date, in file
\* order, and no record for any other row
C11_OneRecordPerValidOrder ==
    [][CleanStepB =>
         LET src == ValidOrders(order_data.rows)
         IN /\ NRows(df') = Len(src)
            /\ \A i \in 1..Len(src) :
                 /\ df'.rows[i].date = to_datetime(src[i].date)
                 /\ df'.rows[i].loc = src[i].loc
                 /\ df'.rows[i].pid = strip(src[i].pid)]_vars

----------------------------------------------------------------------------
(* Claims about the price inputs and stores of variant B *)

\* The two numeric stores hold what format_price_display last wrote to the inputs
TextsFromStores ==
    /\ filter_price_min = format_number(price_min_store)
    /\ filter_price_max = format_number(price_max_store)

\* C12: for every numeric value v of a price store, format_number(v) coerced
\* back by clean_and_convert is v, and a pass of the stores through the inputs
\* (format_price_display, then update_numeric_price_store) leaves the stores
\* unchanged
C12_PriceRoundTrip ==
    [][(variant = "B" /\ pc = "ready") =>
         /\ \A v \in {price_min_store, price_max_store} \ {NaNf, NoneNum} :
               clean_and_convert(format_number(v), NoneNum) = v
         /\ (pending = "numeric" /\ pending' = "display" /\ TextsFromStores) =>
               /\ price_min_store' = price_min_store
               /\ price_max_store' = price_max_store]_vars

----------------------------------------------------------------------------
(* Claims about the derived fields and the diagnostics of variant A *)

\* C13: after the load of variant A either the table is in the empty state, or
\* it holds every merged record and each has total sales = net price x quantity,
\* total tax = total sales x tax rate / 100 and grand total = total sales +
\* total tax; no table has only some of the derived fields
C13_DerivedAllOrNothing ==
    (variant = "A" /\ pc = "ready") =>
       \/ df = EmptyDF
       \/ /\ DerivedInputs \cup DerivedCols \subseteq df.cols
          /\ NRows(df) = NRows(joinlog.merged)
          /\ \A i \in 1..NRows(df) :
               LET r == df.rows[i]
               IN /\ {"total_sales", "total_tax", "grand_total"} \subseteq DOMAIN r
                  /\ r.total_sales = r.price * r.qty
                  /\ r.total_tax = (r.total_sales * r.tax) \div 100
                  /\ r.grand_total = r.total_sales + r.total_tax

\* C13 witness: a load derived 20.00, 2.00 and 22.00 for an order of two units
\* at 10.00 with a tax rate of 10
C13_Witness ==
    /\ variant = "A" /\ pc = "ready" /\ NRows(df) = 2
    /\ df.rows[1].total_sales = 2000 /\ df.rows[1].total_tax = 200
    /\ df.rows[1].grand_total = 2200
    /\ df.rows[2].total_tax = 0

----------------------------------------------------------------------------
(* Claims about empty views and the chatbot *)

NoDataMessage == "No data available for the selected filters."

\* C14: with an empty table or an empty filtered view every callback returns:
\* update_dashboard shows the placeholders and the error figure for an empty
\* table, zeros and 'No Data Selected' for an empty view, and a chart only for
\* a view with rows; update_tabs shows the no-data message for every tab;
\* generate_dashboard_summary gives its no-data text
C14_EmptyViewNoFailure ==
    /\ out.cb = "update_dashboard" =>
          /\ IsEmpty(df) => out.kpi = NoKPIs /\ out.fig = "Error: Data files not loaded"
          /\ (~IsEmpty(df) /\ out.rows = <<>>) =>
                out.kpi = ZeroKPIs /\ out.fig = "No Data Selected"
          /\ out.fig = "chart" <=> out.rows # <<>>
          /\ out.rows # <<>> => out.kpi.sales = SumField(out.rows, "grand_total")
                                               - SumField(out.rows, "total_tax")
    /\ (out.cb = "update_tabs" /\ out.content # "KeyError") =>
          (out.rows = <<>> <=> out.content = NoDataMessage)
    /\ (out.cb = "chatbot_ask" /\ out.content # "KeyError") =>
          (out.rows = <<>> <=> out.summary = [text |-> "No data in current filter."])

\* C14 witness: chatbot_ask filtered a table with rows down to none and the
\* summary was the no-data text
C14_Witness ==
    /\ out.cb = "chatbot_ask" /\ NRows(df) >= 1 /\ out.rows = <<>>
    /\ out.summary = [text |-> "No data in current filter."]

\* A call of chatbot_ask in which filter_df returned and the request was made
ChatStep ==
    variant = "B" /\ out' # out /\ out'.cb = "chatbot_ask" /\ out'.content # "KeyError"

\* What chatbot_ask can display: the content of the reply, the default of
\* the .get calls, or "Error: " and the text of the exception
DisplayedReplies ==
    {"content", "No reply from AI.", "Error: ConnectionError", "Error: ReadTimeout",
     "Error: JSONDecodeError", "Error: list index out of range"}

\* C15: for every outcome of the request (network error, timeout, body that is
\* not JSON, JSON without choices, empty choices list, message without content)
\* chatbot_ask returns a reply or an error string, and the shared table, the
\* stores and the inputs are after the call what they were before it
C15_ChatbotFailureLocal ==
    [][ChatStep =>
         /\ {"network", "timeout", "not_json", "no_choices", "empty_choices",
             "no_content"} \subseteq HttpOutcomes
         /\ \A h \in HttpOutcomes : Reply(h) \in DisplayedReplies
         /\ \A h \in {"network", "timeout", "not_json", "empty_choices"} :
               Reply(h) \notin {"content", "No reply from AI."}
         /\ out'.content \in DisplayedReplies
         /\ df' = df /\ pc' = pc /\ diag' = diag
         /\ loaderB' = loaderB /\ uiB' = uiB]_vars

\* C15 witness: the reply had an empty choices list; chatbot_ask displayed the
\* error text for a view with rows
C15_Witness ==
    /\ variant = "B" /\ out.cb = "chatbot_ask" /\ out.rows # <<>>
    /\ out.content = "Error: list index out of range"

----------------------------------------------------------------------------
(* Claims about coercion and ordering in the variant B loader *)

\* The number each numeric text of the input files stands for, in hundredths;
\* any other cell stands for no number
NumberOf(c) ==
    CASE c = <<"$", "5", ".", "0", "0">> -> 500
      [] c = <<"5", ".", "0", "1">> -> 501
      [] c = <<"$", "1", ",", "0", "0", "0", ".", "0", "0">> -> 100000
      [] c = <<"1">> -> 100
      [] c = <<"2">> -> 200
      [] c = <<"3">> -> 300
      [] c = <<"1", ".", "5">> -> 150
      [] OTHER -> NaNf

\* The step of variant B that coerces and cleans, whatever its outcome
CoerceStepB == variant = "B" /\ pc = "clean" /\ pc' # pc

\* C16: net price, quantity and shipping fee are coerced cell by cell: a text
\* with currency symbol and group separators becomes its number, a text that is
\* no number becomes the missing marker of that cell alone, every other field
\* of the row is kept, and with all columns present no value makes the load
\* abort
C16_RowLevelCoercion ==
    [][CoerceStepB =>
         /\ to_numeric_safe(<<"$", "1", ",", "2", "3", "4", ".", "5", "6">>) = 123456
         /\ LET t == NumericTable(order_data)
            IN /\ NRows(t) = NRows(order_data)
               /\ \A i \in 1..NRows(t) :
                    LET r == t.rows[i]
                        src == order_data.rows[i]
                    IN /\ "Net Price ($)" \in t.cols => r.price = NumberOf(src.price)
                       /\ "Quantity (Units)" \in t.cols => r.qty = NumberOf(src.qty)
                       /\ "Shipping Fee ($)" \in t.cols => r.ship = NumberOf(src.ship)
                       /\ r.pid = src.pid /\ r.date = src.date /\ r.loc = src.loc
         /\ (OrderColsB \subseteq order_data.cols /\ ProductCols \subseteq product_data.cols)
               => /\ pc' = "ready"
                  /\ \A j \in 1..NRows(df') :
                       \E i \in 1..NRows(order_data) :
                          /\ df'.rows[j].price = NumberOf(order_data.rows[i].price)
                          /\ df'.rows[j].qty = NumberOf(order_data.rows[i].qty)
                          /\ df'.rows[j].ship = NumberOf(order_data.rows[i].ship)
                          /\ df'.rows[j].date = to_datetime(order_data.rows[i].date)]_vars

\* C16 witness: a load kept a row with price "abc" and quantity "x" missing
\* and its fee "$1,000.00" as 1000.00, beside a row priced 5.01 with quantity
\* 1 and no fee
C16_Witness ==
    /\ variant = "B" /\ pc = "ready" /\ NRows(order_data) = 2
    /\ order_data.rows[1].price = NaNf /\ order_data.rows[1].qty = NaNf
    /\ order_data.rows[1].ship = 100000
    /\ order_data.rows[2].price = 501 /\ order_data.rows[2].qty = 100
    /\ order_data.rows[2].ship = NaNf

\* Position of the first row of rows whose age group is a
FirstAge(rows, a) == MinOf({i \in 1..Len(rows) : rows[i].age = a})

\* C17: the category order of 'Customer Age Group' is the canonical brackets in
\* their order, followed by the non-null values of the data that are not
\* canonical, each once, in order of first appearance; every age-group value of
\* a joined record is in the list
C17_AgeOrder ==
    [][(CleanStepB /\ "Customer Age Group" \in order_data.cols) =>
         LET ext == extended_order'
             raw == order_data.rows
             vals == {raw[i].age : i \in 1..Len(raw)} \ {NaNs}
         IN /\ Len(ext) >= Len(AGE_ORDER)
            /\ SubSeq(ext, 1, Len(AGE_ORDER)) = AGE_ORDER
            /\ \A k, l \in 1..Len(ext) : ext[k] = ext[l] => k = l
            /\ \A k \in (Len(AGE_ORDER) + 1)..Len(ext) : ext[k] \in vals
            /\ \A k, l \in (Len(AGE_ORDER) + 1)..Len(ext) :
                  (k < l /\ ext[k] \in vals /\ ext[l] \in vals) =>
                      FirstAge(raw, ext[k]) < FirstAge(raw, ext[l])
            /\ \A j \in 1..NRows(df') :
                  df'.rows[j].age # NaNs => df'.rows[j].age \in Range(ext)]_vars

----------------------------------------------------------------------------
(* Claims about the theme and the default view of variant B *)

\* C18: the theme store holds 'light' or 'dark', 'light' before any click (the
\* call Dash makes without a click keeps it), each click flips it, so after n
\* clicks it is 'dark' exactly when n is odd; the wrapper class and the button
\* label toggle_theme returns agree with the stored theme
C18_ThemeToggle ==
    (variant = "B" /\ pc = "ready") =>
       /\ theme_store \in {"light", "dark"}
       /\ n_clicks = 0 => theme_store = "light"
       /\ ThemeAfter(0, theme_store) = "light"
       /\ theme_store = "dark" <=> n_clicks % 2 = 1
       /\ out.cb = "toggle_theme" =>
            /\ out.wrapper_class = (IF theme_store = "dark" THEN "dark-theme"
                                    ELSE "light-theme")
            /\ out.label = (IF theme_store = "dark" THEN "Light Mode" ELSE "Dark Mode")

\* C18 witness: after two clicks the theme is light again and the button
\* offers the dark mode
C18_Witness ==
    /\ variant = "B" /\ pc = "ready" /\ n_clicks = 2 /\ theme_store = "light"
    /\ out.cb = "toggle_theme" /\ out.label = "Dark Mode"
    /\ out.wrapper_class = "light-theme"

----------------------------------------------------------------------------
(* The sanity check of lines 72-75 taken by itself.  The loader reaches line
   74 only with as many merged rows as orders (C1), so the check is applied
   here to row counts drawn from a set that straddles its two thresholds *)

\* Row counts around the factor 1.5 and the floor of 1000 rows of line 74
ShapeCounts == {0, 1, 2, 3, 999, 1000, 1001, 1500, 1501, 3000}

\* df.shape[0] and df_orders.shape[0] on arrival at line 74
InitSanity ==
    /\ variant = "A" /\ pc = "sanity" /\ sepIdx = 1
    /\ df_orders = NoneT /\ df_products = NoneT /\ successful_sep = "None"
    /\ df = EmptyDF
    /\ attempts = <<>> /\ diag = {} /\ out = NoOut
    /\ \E m, n \in ShapeCounts :
          joinlog = [ran |-> TRUE, merged_shape0 |-> m, orders_shape0 |-> n]
    /\ order_data = NoneT /\ product_data = NoneT /\ extended_order = <<>>
    /\ price_min_limit = 0 /\ price_max_limit = 0
    /\ theme_store = "light" /\ n_clicks = 0
    /\ price_min_store = 0 /\ price_max_store = 0
    /\ filter_price_min = <<>> /\ filter_price_max = <<>> /\ pending = "idle"

\* lines 74-75: the warning is printed or not, and line 78 comes next
SanityCheck ==
    /\ variant = "A" /\ pc = "sanity"
    /\ diag' = (IF ExplosionWarning(joinlog.merged_shape0, joinlog.orders_shape0)
                THEN {"CRITICAL WARNING"} ELSE {})
    /\ pc' = "derive"
    /\ UNCHANGED <<variant, df, out, sepIdx, df_orders, df_products, successful_sep,
                   attempts, joinlog, loaderB, uiB>>

NextSanity == SanityCheck

SpecSanity == InitSanity /\ [][NextSanity]_vars

C19_WarningOnlyFarAbove ==
    [][SanityCheck =>
         /\ pc' = "derive"
         /\ diag' # {} <=>
              /\ 2 * joinlog.merged_shape0 > 3 * joinlog.orders_shape0
              /\ joinlog.merged_shape0 >= 1001]_vars

\* The check has warned about 1501 merged rows for 1000 orders
C19_Witness ==
    /\ pc = "derive" /\ joinlog.merged_shape0 = 1501 /\ joinlog.orders_shape0 = 1000
    /\ "CRITICAL WARNING" \in diag

\* lines 340-341: min_date and max_date of the loaded table, NaT when it is empty
Dates(t) == {t.rows[i].date : i \in 1..NRows(t)}

min_date == IF Dates(df) = {} THEN NaT ELSE CHOOSE x \in Dates(df) : \A y \in Dates(df) : x <= y

max_date == IF Dates(df) = {} THEN NaT ELSE CHOOSE x \in Dates(df) : \A y \in Dates(df) : x >= y

\* lines 485-516: the controls as the layout shows them, the whole range of
\* dates and nothing selected in the four dropdowns
UntouchedCriteria ==
    [category |-> NoneSel, location |-> NoneSel, start_date |-> min_date,
     end_date |-> max_date, age |-> NoneSel, season |-> NoneSel]

\* The price inputs show the texts the layout gave them (lines 524-540) and the
\* chain of the two price callbacks has come to rest
DefaultPricesSettled ==
    /\ variant = "B" /\ pc = "ready" /\ pending = "idle"
    /\ filter_price_min = format_number(price_min_limit)
    /\ filter_price_max = format_number(price_max_limit)

\* C20: from a loaded table with no user input, once update_numeric_price_store
\* and format_price_display have settled, the two numeric price stores hold the
\* dataset's minimum and maximum net price, so update_tabs with untouched
\* controls retains every joined record that has a price
C20_DefaultViewKeepsAll ==
    DefaultPricesSettled =>
       /\ price_min_store = price_min_limit
       /\ price_max_store = price_max_limit
       /\ "Net Price ($)" \in df.cols =>
            LET crit == WithPrices(UntouchedCriteria, price_min_store, price_max_store)
            IN \A i \in 1..NRows(df) :
                  df.rows[i].price # NaNf => df.rows[i] \in Range(Filter(df.rows, crit))

====
